---- MODULE Spec2Model ----
(***************************************************************************)
(* Model of backend/app/services/notifications.py: the booking             *)
(* confirmation workflow send_booking_confirmation_email and its helpers.  *)
(* One booking id is modelled.  Each process is one coroutine running the   *)
(* workflow; a step of a process is the code between two await points,      *)
(* with the awaited store or worker-thread call done atomically in it.      *)
(***************************************************************************)
EXTENDS Integers, FiniteSets, Sequences, TLC

\* ---------------------------------------------------------------- bounds
NumProcs == 2
MaxInvocations == 2
MaxOtherWrites == 1

Procs == 1..NumProcs

\* ------------------------------------------------------- value universes
SENTINEL == "email_sent"

\* settings objects returned by get_settings(): are the two fields set?
SettingsSet == [RESEND_API_KEY : BOOLEAN, RESEND_FROM : BOOLEAN]
NoSettings == [RESEND_API_KEY |-> FALSE, RESEND_FROM |-> FALSE]

\* "ABSENT" is a key missing from the row's dict, "NONE" is Python None.
StatusValues == {"ABSENT", "pending", "completed"}
TxnValues == {"NONE", "t1"}
ReceiptValues == {"NONE", "", "https://r/1", SENTINEL}

NoPayment ==
    [present |-> FALSE, payment_status |-> "ABSENT",
     transaction_id |-> "NONE", receipt_url |-> "NONE"]
PaymentRows ==
    [present : {TRUE}, payment_status : StatusValues,
     transaction_id : TxnValues, receipt_url : ReceiptValues]

NoProfile == [present |-> FALSE, email |-> ""]
ProfileRows == [present : {TRUE}, email : {"", "u@x.com"}]

\* what other code writes to the payment row
OtherStatus == {"completed"}
OtherTxn == {"t2"}

FallbackValues == {"", "f@x.com"}

ProviderOutcomes == {"accepted", "transport_error", "rejected"}

NoRequest == [sent |-> FALSE, to |-> "", attachments |-> "NONE"]
NoArgs ==
    [called |-> FALSE, payment_status |-> "NONE",
     transaction_id |-> "NONE", receipt_url |-> "NONE"]
NoCalls == [booking |-> 0, payment |-> 0, profile |-> 0, dispatch |-> 0, update |-> 0]

VARIABLES
    RESEND_AVAILABLE,   \* module flag set at import
    PDF_ENABLED,        \* module flag set at import
    bookings,           \* store: does the booking row exist
    payments,           \* store: the payment row of the booking
    profiles,           \* store: the profile of the booking's user
    pc,                 \* per coroutine: position in the workflow
    fallback_email,     \* per coroutine: argument
    settings,           \* per coroutine: local `settings`
    booking,            \* per coroutine: local `booking` (found?)
    payment,            \* per coroutine: local `payment`
    user_profile,       \* per coroutine: local `user_profile`
    recipient,          \* per coroutine: local `recipient`
    pdf_bytes,          \* per coroutine: local `pdf_bytes`
    dispatch,           \* per coroutine: result of the awaited send
    request,            \* per coroutine: payload given to resend.Emails.send
    update_args,        \* per coroutine: arguments of update_payment_status
    calls,              \* per coroutine: calls made in this invocation
    emails,             \* emails accepted by the provider for the booking
    invocations,        \* invocations started so far
    failed,             \* has a dispatch or an update raised
    other_writes        \* writes to the payment row by other code

vars ==
    <<RESEND_AVAILABLE, PDF_ENABLED, bookings, payments, profiles, pc,
      fallback_email, settings, booking, payment, user_profile, recipient,
      pdf_bytes, dispatch, request, update_args, calls, emails, invocations,
      failed, other_writes>>

flags == <<RESEND_AVAILABLE, PDF_ENABLED>>
store_ro == <<bookings, profiles>>

\* ------------------------------------------------------------- helpers
\* Python truthiness of an optional string
Truthy(v) == v \notin {"NONE", "", "ABSENT"}

\* lines 130-135: the configuration gate
ConfigGateMissingAvail(s, avail) == s.RESEND_API_KEY /\ s.RESEND_FROM
ConfigGate(s, avail) == s.RESEND_API_KEY /\ s.RESEND_FROM /\ avail

\* line 144: payment and payment.get("receipt_url") == "email_sent"
AlreadySentWrongLiteral(p) == p.present /\ p.receipt_url = "sent"
AlreadySentIfPresent(p) == p.present
AlreadySent(p) == p.present /\ p.receipt_url = SENTINEL

\* line 149: (user_profile or {}).get("email") or fallback_email
ResolveRecipient(profile, fb) ==
    IF profile.present /\ Truthy(profile.email) THEN profile.email
    ELSE IF Truthy(fb) THEN fb ELSE ""

\* lines 158-173: the body is built with user_profile.get('full_name'),
\* which raises AttributeError when user_profile is None
BodyRaises(profile) == ~profile.present

\* lines 37-77: None without the PDF library, the document's bytes with it
_build_booking_pdf(enabled) == IF enabled THEN "pdf" ELSE "NONE"

\* lines 96-104 and 115: attachments or None
AttachmentsEmptyEntry(attachment) == "one"
Attachments(attachment) == IF Truthy(attachment) THEN "one" ELSE "NONE"

\* lines 88-117: outcome of _send_email_with_attachment given the settings
\* it reads itself and what the provider does with the request
_send_email_with_attachment(s, avail, provider) ==
    IF ~(s.RESEND_API_KEY /\ s.RESEND_FROM) THEN "config_missing"
    ELSE IF ~avail THEN "sdk_missing"
    ELSE provider

\* did resend.Emails.send get called (line 108)
ReachedProvider(s, avail) == s.RESEND_API_KEY /\ s.RESEND_FROM /\ avail

\* lines 178-192: where the workflow goes after the awaited send
AfterDispatchNoExcept(result, p) == IF p.present THEN "mark_sent" ELSE "returned"
AfterDispatch(result, p) ==
    IF result # "accepted" THEN "returned"
    ELSE IF p.present THEN "mark_sent" ELSE "returned"

\* lines 195-198: the arguments of update_payment_status
MarkSentArgs(p) ==
    [called |-> TRUE,
     payment_status |-> IF p.payment_status = "ABSENT" THEN "completed"
                        ELSE p.payment_status,
     transaction_id |-> p.transaction_id,
     receipt_url |-> IF Truthy(p.receipt_url) THEN p.receipt_url ELSE SENTINEL]

\* the store's update_payment_status: sets the three columns of the row
ApplyUpdate(row, a) ==
    IF ~row.present THEN row
    ELSE [row EXCEPT !.payment_status = a.payment_status,
                     !.transaction_id = a.transaction_id,
                     !.receipt_url = a.receipt_url]

Active(i) == pc[i] \notin {"idle", "returned", "raised"}
Bump(i, f) == [calls EXCEPT ![i][f] = @ + 1]

\* ---------------------------------------------------------------- Init
Init ==
    /\ RESEND_AVAILABLE \in BOOLEAN
    /\ PDF_ENABLED \in BOOLEAN
    /\ bookings \in BOOLEAN
    /\ payments \in {NoPayment} \cup PaymentRows
    /\ profiles \in {NoProfile} \cup ProfileRows
    /\ pc = [i \in Procs |-> "idle"]
    /\ fallback_email = [i \in Procs |-> ""]
    /\ settings = [i \in Procs |-> NoSettings]
    /\ booking = [i \in Procs |-> FALSE]
    /\ payment = [i \in Procs |-> NoPayment]
    /\ user_profile = [i \in Procs |-> NoProfile]
    /\ recipient = [i \in Procs |-> ""]
    /\ pdf_bytes = [i \in Procs |-> "NONE"]
    /\ dispatch = [i \in Procs |-> "none"]
    /\ request = [i \in Procs |-> NoRequest]
    /\ update_args = [i \in Procs |-> NoArgs]
    /\ calls = [i \in Procs |-> NoCalls]
    /\ emails = 0
    /\ invocations = 0
    /\ failed = FALSE
    /\ other_writes = 0

\* -------------------------------------------------------------- actions
\* lines 120-137: a caller invokes the workflow; the configuration gate
Invoke(i, fb, s) ==
    /\ ~Active(i)
    /\ invocations < MaxInvocations
    /\ invocations' = invocations + 1
    /\ fallback_email' = [fallback_email EXCEPT ![i] = fb]
    /\ settings' = [settings EXCEPT ![i] = s]
    /\ booking' = [booking EXCEPT ![i] = FALSE]
    /\ payment' = [payment EXCEPT ![i] = NoPayment]
    /\ user_profile' = [user_profile EXCEPT ![i] = NoProfile]
    /\ recipient' = [recipient EXCEPT ![i] = ""]
    /\ pdf_bytes' = [pdf_bytes EXCEPT ![i] = "NONE"]
    /\ dispatch' = [dispatch EXCEPT ![i] = "none"]
    /\ request' = [request EXCEPT ![i] = NoRequest]
    /\ update_args' = [update_args EXCEPT ![i] = NoArgs]
    /\ calls' = [calls EXCEPT ![i] = NoCalls]
    /\ pc' = [pc EXCEPT ![i] =
                IF ConfigGate(s, RESEND_AVAILABLE) THEN "get_booking"
                ELSE "returned"]
    /\ UNCHANGED <<flags, store_ro, payments, emails, failed, other_writes>>

\* lines 138-141: await get_booking_by_id
GetBookingById(i) ==
    /\ pc[i] = "get_booking"
    /\ calls' = Bump(i, "booking")
    /\ booking' = [booking EXCEPT ![i] = bookings]
    /\ pc' = [pc EXCEPT ![i] = IF bookings THEN "get_payment" ELSE "returned"]
    /\ UNCHANGED <<flags, store_ro, payments, fallback_email, settings,
                   payment, user_profile, recipient, pdf_bytes, dispatch,
                   request, update_args, emails, invocations, failed,
                   other_writes>>

\* lines 143-146: await get_payment_by_booking; the idempotency check
GetPaymentByBooking(i) ==
    /\ pc[i] = "get_payment"
    /\ calls' = Bump(i, "payment")
    /\ payment' = [payment EXCEPT ![i] = payments]
    /\ pc' = [pc EXCEPT ![i] =
                IF AlreadySent(payments) THEN "returned" ELSE "get_profile"]
    /\ UNCHANGED <<flags, store_ro, payments, fallback_email, settings,
                   booking, user_profile, recipient, pdf_bytes, dispatch,
                   request, update_args, emails, invocations, failed,
                   other_writes>>

\* lines 148-176: await get_user_profile; recipient, subject, body, PDF
GetUserProfile(i) ==
    LET r == ResolveRecipient(profiles, fallback_email[i]) IN
    /\ pc[i] = "get_profile"
    /\ calls' = Bump(i, "profile")
    /\ user_profile' = [user_profile EXCEPT ![i] = profiles]
    /\ recipient' = [recipient EXCEPT ![i] = r]
    /\ IF ~Truthy(r)
       THEN /\ pc' = [pc EXCEPT ![i] = "returned"]
            /\ UNCHANGED pdf_bytes
       ELSE IF BodyRaises(profiles)
       THEN /\ pc' = [pc EXCEPT ![i] = "raised"]
            /\ UNCHANGED pdf_bytes
       ELSE /\ pc' = [pc EXCEPT ![i] = "send"]
            /\ pdf_bytes' = [pdf_bytes EXCEPT ![i] = _build_booking_pdf(PDF_ENABLED)]
    /\ UNCHANGED <<flags, store_ro, payments, fallback_email, settings,
                   booking, payment, dispatch, request, update_args, emails,
                   invocations, failed, other_writes>>

\* lines 178-189: await asyncio.to_thread(_send_email_with_attachment, ...)
Dispatch(i, s, provider) ==
    LET result == _send_email_with_attachment(s, RESEND_AVAILABLE, provider) IN
    /\ pc[i] = "send"
    /\ calls' = Bump(i, "dispatch")
    /\ dispatch' = [dispatch EXCEPT ![i] = result]
    /\ request' = [request EXCEPT ![i] =
                     IF ReachedProvider(s, RESEND_AVAILABLE)
                     THEN [sent |-> TRUE, to |-> recipient[i],
                           attachments |-> Attachments(pdf_bytes[i])]
                     ELSE NoRequest]
    /\ emails' = IF result = "accepted" THEN emails + 1 ELSE emails
    /\ failed' = (failed \/ result # "accepted")
    /\ pc' = [pc EXCEPT ![i] = AfterDispatch(result, payment[i])]
    /\ UNCHANGED <<flags, store_ro, payments, fallback_email, settings,
                   booking, payment, user_profile, recipient, pdf_bytes,
                   update_args, invocations, other_writes>>

\* lines 191-201: await update_payment_status, its exception swallowed
UpdatePaymentStatus(i, ok) ==
    LET a == MarkSentArgs(payment[i]) IN
    /\ pc[i] = "mark_sent"
    /\ calls' = Bump(i, "update")
    /\ update_args' = [update_args EXCEPT ![i] = a]
    /\ payments' = IF ok THEN ApplyUpdate(payments, a) ELSE payments
    /\ failed' = (failed \/ ~ok)
    /\ pc' = [pc EXCEPT ![i] = "returned"]
    /\ UNCHANGED <<flags, store_ro, fallback_email, settings, booking,
                   payment, user_profile, recipient, pdf_bytes, dispatch,
                   request, emails, invocations, other_writes>>

\* other code of the application (payment webhooks) writing the same row
OtherWriter(st, tid) ==
    /\ payments.present
    /\ other_writes < MaxOtherWrites
    /\ <<st, tid>> # <<payments.payment_status, payments.transaction_id>>
    /\ payments' = [payments EXCEPT !.payment_status = st, !.transaction_id = tid]
    /\ other_writes' = other_writes + 1
    /\ UNCHANGED <<flags, store_ro, pc, fallback_email, settings, booking,
                   payment, user_profile, recipient, pdf_bytes, dispatch,
                   request, update_args, calls, emails, invocations,
                   failed>>

Next ==
    \/ \E i \in Procs, fb \in FallbackValues, s \in SettingsSet : Invoke(i, fb, s)
    \/ \E i \in Procs : GetBookingById(i)
    \/ \E i \in Procs : GetPaymentByBooking(i)
    \/ \E i \in Procs : GetUserProfile(i)
    \/ \E i \in Procs, s \in SettingsSet, p \in ProviderOutcomes : Dispatch(i, s, p)
    \/ \E i \in Procs, ok \in BOOLEAN : UpdatePaymentStatus(i, ok)
    \/ \E st \in OtherStatus, tid \in OtherTxn : OtherWriter(st, tid)

Spec == Init /\ [][Next]_vars

TypeOK ==
    /\ payments \in {NoPayment} \cup
          [present : {TRUE}, payment_status : StatusValues \cup OtherStatus,
           transaction_id : TxnValues \cup OtherTxn, receipt_url : ReceiptValues]
    /\ emails \in 0..MaxInvocations
    /\ \A i \in Procs : pc[i] \in {"idle", "get_booking", "get_payment",
                                   "get_profile", "send", "mark_sent",
                                   "returned", "raised"}

\* ------------------------------------------------------------ properties
Finished(i) == pc[i] \in {"returned", "raised"}
ReadSentinel(i) ==
    calls[i].payment = 1 /\ payment[i].present /\ payment[i].receipt_url = SENTINEL
GatePassed(i) ==
    settings[i].RESEND_API_KEY /\ settings[i].RESEND_FROM /\ RESEND_AVAILABLE
DispatchRaised(i) == dispatch[i] \in {"config_missing", "sdk_missing",
                                      "transport_error", "rejected"}
UpdateStep(i) == calls'[i].update = calls[i].update + 1
DispatchStep(i) == calls'[i].dispatch = calls[i].dispatch + 1

\* C1: in a sequence of invocations run one after the other (all by
\* coroutine 1, nothing else touching the row) in which every dispatch and
\* every update_payment_status succeeds, at most one email is dispatched.
C1_AtMostOnce ==
    ((\A j \in Procs \ {1} : pc[j] = "idle") /\ ~failed /\ other_writes = 0)
        => emails <= 1

\* C2: no invocation ends with an exception escaping to its caller.
C2_NeverRaises == \A i \in Procs : pc[i] # "raised"

\* C3: an invocation that read a payment row whose receipt_url is
\* "email_sent" has returned, with no dispatch, no update_payment_status
\* call and no profile lookup.
C3_IdempotencyHit ==
    \A i \in Procs :
        ReadSentinel(i) =>
            /\ pc[i] = "returned"
            /\ calls[i].profile = 0
            /\ calls[i].dispatch = 0
            /\ calls[i].update = 0
            /\ ~request[i].sent
            /\ ~update_args[i].called
C3_Witness ==
    \E i \in Procs : ReadSentinel(i) /\ pc[i] = "returned" /\ emails = 1

\* C4: an invocation whose dispatch succeeded ends having made exactly one
\* update_payment_status call whose payment_status and transaction_id are
\* those of the row read and whose receipt_url is "email_sent".
C4_MarkSent ==
    \A i \in Procs :
        (Finished(i) /\ dispatch[i] = "accepted") =>
            /\ calls[i].update = 1
            /\ update_args[i].called
            /\ update_args[i].payment_status = payment[i].payment_status
            /\ update_args[i].transaction_id = payment[i].transaction_id
            /\ update_args[i].receipt_url = SENTINEL

\* C5: an invocation whose dispatch raised has returned after that single
\* attempt without calling update_payment_status, and the step in which
\* the dispatch raised leaves the stored payment row as it was.
C5_DispatchFailure ==
    /\ [](\A i \in Procs :
            DispatchRaised(i) =>
                /\ pc[i] = "returned"
                /\ calls[i].dispatch = 1
                /\ calls[i].update = 0
                /\ ~update_args[i].called)
    /\ [][\A i \in Procs :
            (DispatchStep(i) /\ dispatch'[i] # "accepted") => payments' = payments]_vars
C5_Witness ==
    \E i, j \in Procs :
        /\ dispatch[i] = "config_missing" /\ payment[i].present
        /\ dispatch[j] = "rejected" /\ payment[j].present
        /\ pc[i] = "returned" /\ pc[j] = "returned"

\* C6: the idempotency check looks only at the row the invocation read
\* itself: every invocation that read no row, or a row whose receipt_url
\* is not "email_sent", goes on to the profile lookup, whatever the store
\* holds by then.  The witness is the race: two coroutines both read the
\* row with an empty receipt_url and both emails are dispatched.
C6_CheckIsLocal ==
    \A i \in Procs :
        (calls[i].payment = 1 /\ ~ReadSentinel(i)) =>
            (pc[i] = "get_profile" \/ calls[i].profile = 1)
C6_Witness ==
    /\ emails = 2
    /\ other_writes = 0
    /\ \A i \in {1, 2} :
        /\ dispatch[i] = "accepted"
        /\ payment[i].present
        /\ ~Truthy(payment[i].receipt_url)

\* C7: a finished invocation that got as far as the profile lookup sent to
\* the profile's email if there is one, else to the fallback_email if there
\* is one, and else made no dispatch and no update.
C7_Recipient ==
    \A i \in Procs :
        (Finished(i) /\ calls[i].profile = 1) =>
            IF user_profile[i].present /\ user_profile[i].email # ""
            THEN calls[i].dispatch = 1 /\ recipient[i] = user_profile[i].email
            ELSE IF fallback_email[i] # ""
            THEN calls[i].dispatch = 1 /\ recipient[i] = fallback_email[i]
            ELSE calls[i].dispatch = 0 /\ calls[i].update = 0

\* C8: an invocation stopped by the configuration gate has returned without
\* any store lookup, dispatch or update; one that found no booking has
\* returned after that one lookup, without payment or profile lookup,
\* dispatch or update.
C8_SoftNoOps ==
    \A i \in Procs :
        /\ (pc[i] # "idle" /\ ~GatePassed(i)) =>
              (pc[i] = "returned" /\ calls[i] = NoCalls /\ ~request[i].sent)
        /\ (GatePassed(i) /\ calls[i].booking = 1 /\ ~booking[i]) =>
              /\ pc[i] = "returned"
              /\ calls[i] = [NoCalls EXCEPT !.booking = 1]
              /\ ~request[i].sent
C8_Witness ==
    \E i, j \in Procs :
        /\ pc[i] = "returned" /\ ~settings[i].RESEND_FROM
        /\ pc[j] = "returned" /\ GatePassed(j)
        /\ calls[j].booking = 1 /\ ~booking[j]

C10_Frame ==
    [][/\ bookings' = bookings
       /\ profiles' = profiles
       /\ \A i \in Procs :
            UpdateStep(i) =>
                /\ dispatch[i] = "accepted"
                /\ payments'.payment_status = payments.payment_status
                /\ payments'.transaction_id = payments.transaction_id]_vars

====
